---- MODULE Spec2Model ----
(***************************************************************************)
(* Projection & recurrence engine of money-calendar (src/lib/finance.ts    *)
(* and the flag-driven variant of the same file).                          *)
(*                                                                         *)
(* Time.  A JavaScript Date is an instant; the model counts instants in    *)
(* hours since 1970-01-01T00:00Z (one unit = 3,600,000 ms).  The local     *)
(* zone is a fixed offset tz (local = UTC + tz hours, no daylight saving). *)
(* An ISO date string "YYYY-MM-DDTHH:00:00.000Z" is the tuple              *)
(* <<year, month, day, hour>> (month 1..12); its first ten characters are  *)
(* <<year, month, day>>.  Strings of this one format compare like the      *)
(* tuples compare lexicographically.                                       *)
(*                                                                         *)
(* Money is counted in whole currency units; the 0.8 / 0.2 split of the    *)
(* safe balance is kept exact by reporting safeToSpend and safeToSave in   *)
(* tenths of a unit.                                                       *)
(***************************************************************************)
EXTENDS Integers, Sequences, FiniteSets, TLC

(***************************************************************************)
(* Bounds of the model.                                                    *)
(***************************************************************************)
MaxTx == 2
MaxCalls == 2
MaxTicks == 1
\* transactions the calendar holds before the import stops
MaxHeld == 4

(***************************************************************************)
(* Program constants.                                                      *)
(***************************************************************************)
MaxInstances == 50
MaxLookahead == 30
MaxIntervalDays == 90
HistoryMonths == 3
HoursPerDay == 24

(***************************************************************************)
(* The Date engine: proleptic Gregorian calendar.                          *)
(***************************************************************************)
Min(a, b) == IF a <= b THEN a ELSE b

Max(a, b) == IF a >= b THEN a ELSE b

Abs(x) == IF x < 0 THEN 0 - x ELSE x

\* Day number (days since 1970-01-01) of a civil date, month in 1..12.  The
\* year is counted from 1 March (yy), in 400-year eras; mp is the month
\* counted from March.
DaysOfEra(era, yoe, doy) ==
  era * 146097 + (yoe * 365 + yoe \div 4 - yoe \div 100 + doy) - 719468

DaysOfMarchYear(yy, mp, d) ==
  DaysOfEra(yy \div 400, yy % 400, (153 * mp + 2) \div 5 + d - 1)

DaysFromCivil(y, m, d) ==
  DaysOfMarchYear(IF m <= 2 THEN y - 1 ELSE y, IF m > 2 THEN m - 3 ELSE m + 9, d)

\* Civil date <<year, month, day>> (month in 1..12) of a day number, by the
\* inverse steps: era, day of era, year of era, day of year, month.
CivilOfMonth(era, yoe, doy, mp) ==
  <<yoe + era * 400 + (IF mp < 10 THEN 0 ELSE 1),
    IF mp < 10 THEN mp + 3 ELSE mp - 9,
    doy - (153 * mp + 2) \div 5 + 1>>

CivilOfDayOfYear(era, yoe, doy) ==
  CivilOfMonth(era, yoe, doy, (5 * doy + 2) \div 153)

CivilOfYearOfEra(era, doe, yoe) ==
  CivilOfDayOfYear(era, yoe, doe - (365 * yoe + yoe \div 4 - yoe \div 100))

CivilOfDayOfEra(era, doe) ==
  CivilOfYearOfEra(era, doe,
    (doe - doe \div 1460 + doe \div 36524 - doe \div 146096) \div 365)

CivilFromDays(z) ==
  CivilOfDayOfEra((z + 719468) \div 146097, (z + 719468) % 146097)

\* new Date(year, monthIndex, day) in a zone at offset z: local midnight of
\* the date, monthIndex counted from 0 and free to overflow either way, day
\* free to overflow (day 0 is the last day of the previous month).
LocalDate(z, year, monthIndex, day) ==
  (DaysFromCivil(year + monthIndex \div 12, (monthIndex % 12) + 1, 1) + day - 1)
    * HoursPerDay - z

\* Local calendar fields of an instant.
LocalDay(z, t) == (t + z) \div HoursPerDay

LocalHour(z, t) == (t + z) % HoursPerDay

getFullYear(z, t) == CivilFromDays(LocalDay(z, t))[1]

getMonth(z, t) == CivilFromDays(LocalDay(z, t))[2] - 1

getDate(z, t) == CivilFromDays(LocalDay(z, t))[3]

\* 0 = Sunday ... 6 = Saturday; 1970-01-01 was a Thursday.
getDay(z, t) == (LocalDay(z, t) + 4) % 7

\* d.setDate(d.getDate() + n): n local days later, same local time of day.
setDatePlus(t, n) == t + n * HoursPerDay

\* Date.prototype.toISOString(): the UTC fields of the instant.
toISOString(t) == CivilFromDays(t \div HoursPerDay) \o <<t % HoursPerDay>>

\* new Date(isoString).getTime()
parseDate(s) == DaysFromCivil(s[1], s[2], s[3]) * HoursPerDay + s[4]

\* isoString.slice(0, 10)
slice10(s) == <<s[1], s[2], s[3]>>

\* a.localeCompare(b) < 0 on two ISO strings
StrLess(a, b) ==
  \/ a[1] < b[1]
  \/ a[1] = b[1] /\ a[2] < b[2]
  \/ a[1] = b[1] /\ a[2] = b[2] /\ a[3] < b[3]
  \/ a[1] = b[1] /\ a[2] = b[2] /\ a[3] = b[3] /\ a[4] < b[4]

\* startOfDay: setHours(0, 0, 0, 0) on a copy, local midnight of the day of d.
\* startOfDayNoTruncate is the faulty variant that keeps the time of day.
startOfDayNoTruncate(z, d) == d
startOfDay(z, d) == LocalDay(z, d) * HoursPerDay - z

\* addMonths: setMonth(getMonth() + months) on a copy; months may be negative,
\* and the month then counts backward.  addMonthsForward is the faulty variant
\* that counts forward whatever the sign.
addMonthsForward(z, d, months) ==
  LocalDate(z, getFullYear(z, d), getMonth(z, d) + Abs(months), getDate(z, d))
    + LocalHour(z, d)
addMonths(z, d, months) ==
  LocalDate(z, getFullYear(z, d), getMonth(z, d) + months, getDate(z, d))
    + LocalHour(z, d)


(***************************************************************************)
(* Data model.                                                             *)
(***************************************************************************)
TransactionType ==
  {"bill", "paycheck", "internal_transfer", "income", "expense", "other"}

\* schedule: null
NoSchedule == [frequency |-> "none", interval |-> 0]

Transaction(id, name, amount, date, type, recurring, schedule) ==
  [id |-> id, name |-> name, amount |-> amount, date |-> date,
   type |-> type, recurring |-> recurring, schedule |-> schedule]

\* String.prototype.toLowerCase() on the display names the model uses.
toLowerCase(name) ==
  CASE name = "Rent"   -> "rent"
    [] name = "Salary" -> "salary"
    [] name = "Tips"   -> "tips"
    [] name = "Gym"    -> "gym"
    [] name = "Move"   -> "move"
    [] name = "Coffee" -> "coffee"
    [] OTHER           -> name

\* Array.prototype.sort((a, b) => a.date.localeCompare(b.date)) is a stable
\* sort by the date strings.
\* position of s[i] in the sorted array: after every element with a smaller
\* date string and after the earlier elements with the same one.
sortRank(s, i) ==
  1 + Cardinality({j \in 1..Len(s) :
                     \/ StrLess(s[j].date, s[i].date)
                     \/ j < i /\ ~StrLess(s[i].date, s[j].date)})

sortByDate(s) ==
  LET rank(i) == sortRank(s, i)
      ranks   == [i_ \in 1..(Len(s)) |-> rank(i_)]
      at(k)   == s[CHOOSE i \in 1..Len(s) : ranks[i] = k]
  IN  [i_ \in 1..(Len(s)) |-> at(i_)]

(***************************************************************************)
(* generateRecurringTransactions, inference from history (finance.ts).     *)
(***************************************************************************)
\* `${transaction.name.toLowerCase()}-${transaction.type}`
groupKey(t) == <<toLowerCase(t.name), t.type>>

\* Keys of transactionGroups in insertion order (first occurrence).
RECURSIVE transactionGroupKeys(_)
transactionGroupKeys(txs) ==
  IF txs = <<>> THEN <<>>
  ELSE LET before == transactionGroupKeys(SubSeq(txs, 1, Len(txs) - 1))
           k      == groupKey(txs[Len(txs)])
       IN  IF \E i \in 1..Len(before) : before[i] = k
           THEN before ELSE Append(before, k)

transactionGroup(txs, key) ==
  LET InGroup(t) == groupKey(t) = key IN SelectSeq(txs, InGroup)

\* Math.round(hours / 24): nearest integer, halves up.
daysDiff(later, earlier) ==
  (2 * (later - earlier) + HoursPerDay) \div (2 * HoursPerDay)

\* The outlier guard on a day gap: daysDiff > 0 && daysDiff <= 90.
\* withoutUpperGuard is the faulty variant that keeps the long gaps.
withoutUpperGuard(d) == d > 0
passesGuard(d) == d > 0 /\ d <= MaxIntervalDays

\* The day gaps between consecutive dates that pass the outlier guard.
RECURSIVE intervalsOf(_)
intervalsOf(sorted) ==
  IF Len(sorted) < 2 THEN <<>>
  ELSE LET n == Len(sorted)
           d == daysDiff(parseDate(sorted[n].date), parseDate(sorted[n - 1].date))
           before == intervalsOf(SubSeq(sorted, 1, n - 1))
       IN  IF passesGuard(d) THEN Append(before, d) ELSE before

RECURSIVE SumSeq(_)
SumSeq(s) == IF s = <<>> THEN 0 ELSE SumSeq(Tail(s)) + Head(s)

\* avgInterval as the exact fraction num / den.  avgIntervalZeroDefault is
\* the faulty variant that takes 0 where no gap passed the guard.
avgIntervalZeroDefault(intervals) ==
  IF Len(intervals) > 0
  THEN [num |-> SumSeq(intervals), den |-> Len(intervals)]
  ELSE [num |-> 0, den |-> 1]
avgInterval(intervals) ==
  IF Len(intervals) > 0
  THEN [num |-> SumSeq(intervals), den |-> Len(intervals)]
  ELSE [num |-> 30, den |-> 1]

isBiWeekly(avg) == avg.num >= 10 * avg.den /\ avg.num <= 18 * avg.den

isMonthly(avg) == avg.num >= 25 * avg.den /\ avg.num <= 35 * avg.den

\* Math.round(avgInterval)
roundAvg(avg) == (2 * avg.num + avg.den) \div (2 * avg.den)

intervalSchedule(intervalDays) ==
  [frequency |-> IF intervalDays <= 7 THEN "weekly"
                 ELSE IF intervalDays <= 31 THEN "monthly" ELSE "yearly",
   interval |-> 1]

MonthlySchedule == [frequency |-> "monthly", interval |-> 1]

\* The synthetic instance pushed by either loop.  futureInstanceFromOne is
\* the faulty variant that numbers the instances from 1.
futureInstanceFromOne(anchor, nextDate, instanceCount, schedule) ==
  Transaction(anchor.id \o <<"-future-", ToString(instanceCount + 1)>>, anchor.name,
              anchor.amount, toISOString(nextDate), anchor.type, TRUE, schedule)
futureInstance(anchor, nextDate, instanceCount, schedule) ==
  Transaction(anchor.id \o <<"-future-", ToString(instanceCount)>>, anchor.name,
              anchor.amount, toISOString(nextDate), anchor.type, TRUE, schedule)

\* while (nextDate <= endDate && instanceCount < 50) { push; nextDate += intervalDays }
RECURSIVE intervalLoop(_, _, _, _, _)
intervalLoop(last, nextDate, intervalDays, endDate, instanceCount) ==
  IF nextDate <= endDate /\ instanceCount < MaxInstances
  THEN <<futureInstance(last, nextDate, instanceCount, intervalSchedule(intervalDays))>>
       \o intervalLoop(last, setDatePlus(nextDate, intervalDays), intervalDays,
                       endDate, instanceCount + 1)
  ELSE <<>>

\* new Date(year, month, dayOfMonth), replaced by the last day of the month
\* when the day does not exist in it.
monthDate(z, currentYear, currentMonth, dayOfMonth) ==
  LET nextDate == LocalDate(z, currentYear, currentMonth, dayOfMonth)
  IN  IF getMonth(z, nextDate) # currentMonth
      THEN LocalDate(z, currentYear, currentMonth + 1, 0)
      ELSE nextDate

\* while (instanceCount < 50) { ...; if (nextDate > endDate) break; push; month++ }
RECURSIVE monthlyLoop(_, _, _, _, _, _, _)
monthlyLoop(z, last, dayOfMonth, currentYear, currentMonth, endDate, instanceCount) ==
  IF instanceCount < MaxInstances
  THEN LET nextDate == monthDate(z, currentYear, currentMonth, dayOfMonth)
       IN  IF nextDate > endDate THEN <<>>
           ELSE <<futureInstance(last, nextDate, instanceCount, MonthlySchedule)>>
                \o monthlyLoop(z, last, dayOfMonth,
                               IF currentMonth + 1 > 11 THEN currentYear + 1 ELSE currentYear,
                               IF currentMonth + 1 > 11 THEN 0 ELSE currentMonth + 1,
                               endDate, instanceCount + 1)
  ELSE <<>>

\* The body of transactionGroups.forEach for one group.
groupInstances(z, today, groupTransactions, endDate) ==
  LET sortedTransactions == sortByDate(groupTransactions)
      lastTransaction    == sortedTransactions[Len(sortedTransactions)]
      lastDate           == parseDate(lastTransaction.date)
      avg                == avgInterval(intervalsOf(sortedTransactions))
      intervalDays       == roundAvg(avg)
      nextMonth          == getMonth(z, lastDate) + 1
  IN  IF lastDate < today
      THEN IF lastTransaction.type = "paycheck" \/ isBiWeekly(avg)
           THEN intervalLoop(lastTransaction, setDatePlus(lastDate, intervalDays),
                             intervalDays, endDate, 0)
           ELSE monthlyLoop(z, lastTransaction, getDate(z, lastDate),
                            IF nextMonth > 11 THEN getFullYear(z, lastDate) + 1
                                              ELSE getFullYear(z, lastDate),
                            IF nextMonth > 11 THEN 0 ELSE nextMonth,
                            endDate, 0)
      ELSE <<>>

RECURSIVE forEachGroup(_, _, _, _, _)
forEachGroup(z, today, txs, keys, endDate) ==
  IF keys = <<>> THEN <<>>
  ELSE groupInstances(z, today, transactionGroup(txs, Head(keys)), endDate)
       \o forEachGroup(z, today, txs, Tail(keys), endDate)

generateRecurringTransactions(z, clock, txs, endDate) ==
  forEachGroup(z, startOfDay(z, clock), txs, transactionGroupKeys(txs), endDate)

\* The pattern analysis the synthesizer logs for one group: the name of the
\* last transaction, the number of occurrences, the average interval and
\* the pattern it reads from it.
groupAnalysis(groupTransactions) ==
  LET sortedTransactions == sortByDate(groupTransactions)
      avg == avgInterval(intervalsOf(sortedTransactions))
  IN  [name        |-> sortedTransactions[Len(sortedTransactions)].name,
       type        |-> sortedTransactions[Len(sortedTransactions)].type,
       occurrences |-> Len(sortedTransactions),
       avgInterval |-> avg,
       pattern     |-> IF isBiWeekly(avg) THEN "BI-WEEKLY"
                       ELSE IF isMonthly(avg) THEN "MONTHLY" ELSE "IRREGULAR"]

\* The log of a call, one entry a group, in the order of the groups.
patternAnalysis(txs) ==
  LET keys == transactionGroupKeys(txs)
  IN  [g \in 1..Len(keys) |-> groupAnalysis(transactionGroup(txs, keys[g]))]


(***************************************************************************)
(* generateRecurringTransactions, flag-driven variant (same file, second   *)
(* version): every transaction flagged recurring repeats monthly.          *)
(***************************************************************************)
adjustForWeekend(z, date) ==
  IF getDay(z, date) = 0 THEN setDatePlus(date, 1)
  ELSE IF getDay(z, date) = 6 THEN setDatePlus(date, 2)
  ELSE date

RECURSIVE simpleMonthlyLoop(_, _, _, _, _, _, _)
simpleMonthlyLoop(z, transaction, dayOfMonth, currentYear, currentMonth, endDate, instanceCount) ==
  IF instanceCount < MaxInstances
  THEN LET nextDate == adjustForWeekend(z, monthDate(z, currentYear, currentMonth, dayOfMonth))
       IN  IF nextDate > endDate THEN <<>>
           ELSE <<futureInstance(transaction, nextDate, instanceCount, MonthlySchedule)>>
                \o simpleMonthlyLoop(z, transaction, dayOfMonth,
                               IF currentMonth + 1 > 11 THEN currentYear + 1 ELSE currentYear,
                               IF currentMonth + 1 > 11 THEN 0 ELSE currentMonth + 1,
                               endDate, instanceCount + 1)
  ELSE <<>>

\* The body of recurringBaseTransactions.forEach for one flagged transaction.
baseInstances(z, today, transaction, endDate) ==
  LET dayOfMonth       == getDate(z, parseDate(transaction.date))
      currentMonthDate == LocalDate(z, getFullYear(z, today), getMonth(z, today), dayOfMonth)
      passed           == currentMonthDate < today
      startMonth       == IF passed THEN getMonth(z, today) + 1 ELSE getMonth(z, today)
  IN  simpleMonthlyLoop(z, transaction, dayOfMonth,
                        IF startMonth > 11 THEN getFullYear(z, today) + 1
                                           ELSE getFullYear(z, today),
                        IF startMonth > 11 THEN 0 ELSE startMonth,
                        endDate, 0)

RECURSIVE forEachBase(_, _, _, _)
forEachBase(z, today, bases, endDate) ==
  IF bases = <<>> THEN <<>>
  ELSE baseInstances(z, today, Head(bases), endDate)
       \o forEachBase(z, today, Tail(bases), endDate)

generateRecurringTransactionsSimple(z, clock, txs, endDate) ==
  LET IsRecurring(tx) == tx.recurring
  IN  forEachBase(z, startOfDay(z, clock), SelectSeq(txs, IsRecurring), endDate)


(***************************************************************************)
(* computeProjection (identical in both versions of the file).             *)
(***************************************************************************)
\* The income filter; isIncomeOrOther is the faulty variant that takes the
\* type other for an income.
isIncomeOrOther(t) ==
  t.type = "paycheck" \/ t.type = "income" \/ t.type = "other"
    \/ (t.type = "internal_transfer" /\ t.amount > 0)
isIncome(t) ==
  t.type = "paycheck" \/ t.type = "income"
    \/ (t.type = "internal_transfer" /\ t.amount > 0)

\* The expense filter; isExpenseNoTransfer is the faulty variant that forgets
\* the negative internal_transfer.
isExpenseNoTransfer(t) ==
  t.type = "bill" \/ t.type = "expense"
isExpense(t) ==
  t.type = "bill" \/ t.type = "expense"
    \/ (t.type = "internal_transfer" /\ t.amount < 0)

\* .reduce((sum, t) => sum + Math.abs(t.amount), 0)
RECURSIVE sumAbs(_, _)
sumAbs(txs, i) ==
  IF i > Len(txs) THEN 0 ELSE Abs(txs[i].amount) + sumAbs(txs, i + 1)

\* transactionsByDate: the entries of the Map in insertion order, each
\* transaction under the key new Date(date).toISOString().slice(0, 10).
indexByDate(all) ==
  LET entry(i) == [dateKey |-> slice10(toISOString(parseDate(all[i].date))),
                   tx      |-> all[i]]
  IN  [i_ \in 1..(Len(all)) |-> entry(i_)]

\* transactionsByDate.get(dateStr) || []
mapGet(transactionsByDate, dateStr) ==
  LET Hit(e) == e.dateKey = dateStr
      hits   == SelectSeq(transactionsByDate, Hit)
      tx(i)  == hits[i].tx
  IN  [i_ \in 1..(Len(hits)) |-> tx(i_)]

\* What the loops read of the day k days after startDate: its date string,
\* its transactions and the two filters over them.
dayRow(transactionsByDate, startDate, k) ==
  LET dateStr         == slice10(toISOString(setDatePlus(startDate, k)))
      dayTransactions == mapGet(transactionsByDate, dateStr)
  IN  [dateStr         |-> dateStr,
       dayTransactions |-> dayTransactions,
       actualIncome    |-> sumAbs(SelectSeq(dayTransactions, isIncome), 1),
       actualExpenses  |-> sumAbs(SelectSeq(dayTransactions, isExpense), 1),
       hasIncome       |-> \E i \in 1..Len(dayTransactions) : isIncome(dayTransactions[i])]

dayRows(transactionsByDate, startDate, last) ==
  LET row(i) == dayRow(transactionsByDate, startDate, i - 1)
  IN  [i_ \in 1..(last + 1) |-> row(i_)]

\* The scan for the next income: futureDate starts at the current day k;
\* while it is not past endDate (day index at most lastDay) step one day,
\* count it, stop on income or once more than 30 days were counted.
RECURSIVE scanNextIncome(_, _, _, _)
scanNextIncome(rows, k, lastDay, daysUntilNextIncome) ==
  IF k + daysUntilNextIncome <= lastDay
  THEN IF rows[k + daysUntilNextIncome + 2].hasIncome
       THEN daysUntilNextIncome + 1
       ELSE IF daysUntilNextIncome + 1 > MaxLookahead
            THEN daysUntilNextIncome + 1
            ELSE scanNextIncome(rows, k, lastDay, daysUntilNextIncome + 1)
  ELSE daysUntilNextIncome

\* for (i = 0; i < daysUntilNextIncome && i < 30; i++) upcomingExpenses += ...
RECURSIVE lookAhead(_, _, _, _)
lookAhead(rows, k, daysUntilNextIncome, i) ==
  IF i < daysUntilNextIncome /\ i < MaxLookahead
  THEN rows[k + i + 2].actualExpenses + lookAhead(rows, k, daysUntilNextIncome, i + 1)
  ELSE 0

\* const income = isToday ? 0 : actualIncome (and the same for expenses)
appliedAmount(isToday, actual) == IF isToday THEN 0 ELSE actual

\* const startingBalanceForDay = isToday ? startingBalance : currentBalance
startingBalanceForDay(isToday, startingBalance, currentBalance) ==
  IF isToday THEN startingBalance ELSE currentBalance

\* The update of currentBalance for the day; updateBalanceNoExpenses is the
\* faulty variant that leaves the day's expenses out of a future day.
updateBalanceNoExpenses(isHistorical, isToday, startingBalance, currentBalance, income, expenses) ==
  IF ~isHistorical /\ ~isToday THEN currentBalance + income
  ELSE IF isToday THEN startingBalance
  ELSE currentBalance
updateBalance(isHistorical, isToday, startingBalance, currentBalance, income, expenses) ==
  IF ~isHistorical /\ ~isToday THEN currentBalance + income - expenses
  ELSE IF isToday THEN startingBalance
  ELSE currentBalance

\* Math.max(0, safeBalance * share), in tenths: share is 8 for 0.8, 2 for 0.2.
safeAmount(safeBalance, share) == Max(0, safeBalance * share)

\* const isHistorical = currentDate < today.  isHistoricalNever is the
\* faulty variant that treats every day as a projected one.
isHistoricalNever(currentDate, today) == FALSE
isHistoricalDay(currentDate, today) == currentDate < today

\* One iteration of the day loop: the projection pushed for day k, given the
\* running balance on entry.
dayProjection(rows, k, lastDay, startDate, today, todayStr, startingBalance, currentBalance) ==
  LET row          == rows[k + 1]
      currentDate  == setDatePlus(startDate, k)
      isHistorical == isHistoricalDay(currentDate, today)
      isToday      == row.dateStr = todayStr
      income       == appliedAmount(isToday, row.actualIncome)
      expenses     == appliedAmount(isToday, row.actualExpenses)
      newBalance   == updateBalance(isHistorical, isToday, startingBalance,
                                    currentBalance, income, expenses)
      daysUntilNextIncome == IF ~isHistorical
                             THEN scanNextIncome(rows, k, lastDay, 0) ELSE 0
      upcomingExpenses == lookAhead(rows, k, daysUntilNextIncome, 0)
      safeBalance  == newBalance - upcomingExpenses
  IN  [date                |-> row.dateStr,
       startingBalance     |-> startingBalanceForDay(isToday, startingBalance, currentBalance),
       transactions        |-> row.dayTransactions,
       totalIncome         |-> row.actualIncome,
       totalExpenses       |-> row.actualExpenses,
       endingBalance       |-> newBalance,
       safeToSpend         |-> IF ~isHistorical THEN safeAmount(safeBalance, 8) ELSE 0,
       safeToSave          |-> IF ~isHistorical THEN safeAmount(safeBalance, 2) ELSE 0,
       daysUntilNextIncome |-> daysUntilNextIncome,
       isHistorical        |-> isHistorical]

\* for (currentDate = startDate; currentDate <= endDate; currentDate += 1 day)
\* The projections of days k..upTo, entered with running balance
\* currentBalance; the second half of the range is entered with the balance
\* the first half ends on.
RECURSIVE dayLoop(_, _, _, _, _, _, _, _, _)
dayLoop(rows, k, upTo, lastDay, startDate, today, todayStr, startingBalance, currentBalance) ==
  IF k > upTo THEN <<>>
  ELSE IF k = upTo
  THEN <<dayProjection(rows, k, lastDay, startDate, today, todayStr,
                       startingBalance, currentBalance)>>
  ELSE LET mid   == (k + upTo) \div 2
           first == dayLoop(rows, k, mid, lastDay, startDate, today, todayStr,
                            startingBalance, currentBalance)
       IN  first \o dayLoop(rows, mid + 1, upTo, lastDay, startDate, today, todayStr,
                            startingBalance, first[Len(first)].endingBalance)

computeProjection(z, clock, transactions, startingBalance, config, mode) ==
  LET today     == startOfDay(z, clock)
      todayStr  == slice10(toISOString(today))
      allTransactions == sortByDate(transactions)
      endDate   == addMonths(z, today, config.monthsToProject)
      recurringTransactions ==
        IF mode = "inference"
        THEN generateRecurringTransactions(z, clock, transactions, endDate)
        ELSE generateRecurringTransactionsSimple(z, clock, transactions, endDate)
      allTransactionsWithRecurring == sortByDate(allTransactions \o recurringTransactions)
      transactionsByDate == indexByDate(allTransactionsWithRecurring)
      earliestDate == IF Len(allTransactions) > 0
                      THEN parseDate(allTransactions[1].date) ELSE today
      startDate == Min(addMonths(z, today, 0 - HistoryMonths), earliestDate)
      \* index of the last day the loop visits (-1 when it visits none)
      lastDay   == (endDate - startDate) \div HoursPerDay
      rows      == dayRows(transactionsByDate, startDate, lastDay + 1)
      dailyProjections == dayLoop(rows, 0, lastDay, lastDay, startDate, today, todayStr,
                                  startingBalance, startingBalance)
  IN  [periods      |-> dailyProjections,
       finalBalance |-> IF dailyProjections = <<>> THEN startingBalance
                        ELSE dailyProjections[Len(dailyProjections)].endingBalance,
       recurringTransactions |-> recurringTransactions]


\* The caller's list once computeProjection has returned: the function sorts
\* a copy ([...transactions]) and the synthesizer pushes the records into
\* group arrays of its own, so the list the caller passed is as it was.
transactionsAfterSortInPlace(transactions) == sortByDate(transactions)
transactionsAfterCall(transactions) == transactions


(***************************************************************************)
(* The inputs the model draws from.                                        *)
(***************************************************************************)
\* Zones the browser may run in (hours east of UTC).
TimeZones == {0 - 5, 0, 2}

\* The clock when the page is first rendered: 10 February, 15:00Z, of a
\* leap year and of a year whose February ends on a Saturday.
Years == {2024, 2026}

ClockOf(year) == LocalDate(0, year, 1, 10) + 15

\* Hours between two looks at the clock.
TickHours == 8

\* A date string dayOffset days from 10 February of the year, at hour h UTC.
DateStr(year, dayOffset, h) ==
  toISOString(LocalDate(0, year, 1, 10 + dayOffset) + h)

\* The transactions a caller may hold, in the order it holds them.
\* schedule of a paycheck entered as repeating every two weeks
BiWeekly == [frequency |-> "weekly", interval |-> 2]

Pool(year) ==
  << Transaction(<<"t1">>, "Salary", 2100, DateStr(year, 1, 0),      "paycheck", TRUE,  BiWeekly),
     Transaction(<<"t2">>, "Rent",   1500, DateStr(year, 0 - 9, 0),  "bill",     TRUE,  MonthlySchedule),
     Transaction(<<"t3">>, "Move",   0 - 300, DateStr(year, 3, 0),   "internal_transfer", FALSE, NoSchedule),
     Transaction(<<"t4">>, "Tips",   30,   DateStr(year, 0 - 99, 18), "paycheck", FALSE, NoSchedule),
     Transaction(<<"t5">>, "Gym",    40,   DateStr(year, 0 - 10, 12), "bill",     TRUE,  MonthlySchedule),
     Transaction(<<"t6">>, "Move",   300,  DateStr(year, 4, 0),      "internal_transfer", FALSE, NoSchedule),
     Transaction(<<"t7">>, "tips",   30,   DateStr(year, 0 - 100, 0), "paycheck", FALSE, NoSchedule),
     Transaction(<<"t8">>, "Coffee", 5,    DateStr(year, 0, 0),      "expense",  FALSE, NoSchedule),
     Transaction(<<"t9">>, "salary", 2100, DateStr(year, 0 - 14, 0), "paycheck", FALSE, NoSchedule),
     Transaction(<<"t10">>, "Salary", 2100, DateStr(year, 0 - 28, 0), "paycheck", FALSE, NoSchedule),
     Transaction(<<"t11">>, "rent",  1500, DateStr(year, 0 - 40, 0), "bill",     TRUE,  MonthlySchedule) >>

\* The strictly increasing index lists of length at most n into 1..m.
RECURSIVE Picks(_, _, _)
Picks(from, m, n) ==
  {<<>>} \cup
  (IF n = 0 THEN {}
   ELSE UNION {{<<i>> \o rest : rest \in Picks(i + 1, m, n - 1)} : i \in from..m})

TransactionLists(year) ==
  {[k \in 1..Len(idx) |-> Pool(year)[idx[k]]] : idx \in Picks(1, Len(Pool(year)), MaxTx)}

StartingBalances == {1000}

MonthsToProject == {0, 1}

Versions == {"inference", "flag"}

(***************************************************************************)
(* The SimpleFIN import component and the list it feeds.                   *)
(***************************************************************************)
\* Days a first fetch looks back.
FreshStartDays == 90

\* The component when it mounts: nothing fetched, nothing imported, every
\* account shown.
SimpleFINImport ==
  [transactions |-> <<>>, importedTransactionIds |-> {}, selectedAccount |-> "all"]

\* A fetched record as the component lists it.
SimpleFINTransaction(id, name, amount, date, type, account) ==
  [id |-> id, name |-> name, amount |-> amount, date |-> date, type |-> type,
   selected |-> TRUE, account |-> account]

\* What the bank answers to a fetch, mapped to the component's records.
BankFeed(year) ==
  << SimpleFINTransaction(<<"simplefin-1">>, "Payroll", 2100,
                          DateStr(year, 0 - 20, 0), "paycheck", "checking"),
     SimpleFINTransaction(<<"simplefin-2">>, "Electric", 0 - 120,
                          DateStr(year, 0 - 5, 0), "bill", "checking"),
     SimpleFINTransaction(<<"simplefin-3">>, "Transfer to savings", 0 - 300,
                          DateStr(year, 0 - 5, 12), "internal_transfer", "savings") >>

Accounts == {"all", "checking", "savings"}

\* The latest date among the calendar's transactions, or 90 days before the
\* clock when the calendar is empty.
RECURSIVE latestOf(_, _, _)
latestOf(existingTransactions, i, latest) ==
  IF i > Len(existingTransactions) THEN latest
  ELSE latestOf(existingTransactions, i + 1,
                Max(latest, parseDate(existingTransactions[i].date)))

latestImportDate(existingTransactions, clock) ==
  IF Len(existingTransactions) > 0
  THEN latestOf(existingTransactions, 1, 0)
  ELSE clock - FreshStartDays * HoursPerDay

\* The fetched records the component keeps: those dated on or after the
\* latest import date.
RECURSIVE filterFrom(_, _, _)
filterFrom(allTransactions, i, latest) ==
  IF i > Len(allTransactions) THEN <<>>
  ELSE (IF parseDate(allTransactions[i].date) >= latest
        THEN <<allTransactions[i]>> ELSE <<>>)
       \o filterFrom(allTransactions, i + 1, latest)

\* The selected records of the account shown.
RECURSIVE accountFiltered(_, _, _)
accountFiltered(listed, i, selectedAccount) ==
  IF i > Len(listed) THEN <<>>
  ELSE (IF listed[i].selected
           /\ (selectedAccount = "all" \/ listed[i].account = selectedAccount)
        THEN <<listed[i]>> ELSE <<>>)
       \o accountFiltered(listed, i + 1, selectedAccount)

\* A fetched record in the calendar's format.
importedTransaction(t) ==
  Transaction(t.id, t.name,
              IF t.type \in {"bill", "expense"} THEN Abs(t.amount) ELSE t.amount,
              t.date, t.type, FALSE, NoSchedule)

\* addTransactions of the page: the new records after the held ones.
addTransactions(held, newTransactions) == held \o newTransactions


(***************************************************************************)
(* The page: it holds the inputs and its render calls computeProjection on  *)
(* them.                                                                   *)
(***************************************************************************)
VARIABLES tz, now, ticks, transactions, startingBalance, config, version, calls,
          simplefin

vars == <<tz, now, ticks, transactions, startingBalance, config, version, calls,
          simplefin>>

Init ==
  /\ tz \in TimeZones
  /\ \E year \in Years :
       /\ now = ClockOf(year)
       /\ transactions \in TransactionLists(year)
  /\ ticks = 0
  /\ startingBalance \in StartingBalances
  /\ config \in [monthsToProject : MonthsToProject]
  /\ version \in Versions
  /\ calls = <<>>
  /\ simplefin = SimpleFINImport

\* Time passes.
Tick ==
  /\ ticks < MaxTicks
  /\ ticks' = ticks + 1
  /\ now' = now + TickHours
  /\ UNCHANGED <<simplefin, tz, transactions, startingBalance, config, version, calls>>

\* The first render: a call of computeProjection of finance.ts.
Project ==
  /\ version = "inference"
  /\ calls = <<>>
  /\ calls' = Append(calls,
       [clock |-> now] @@
       computeProjection(tz, now, transactions, startingBalance, config, version))
  /\ transactions' = transactionsAfterCall(transactions)
  /\ UNCHANGED <<simplefin, tz, now, ticks, startingBalance, config, version>>

\* The first render: a call of computeProjection of the flag-driven version.
ProjectSimple ==
  /\ version = "flag"
  /\ calls = <<>>
  /\ calls' = Append(calls,
       [clock |-> now] @@
       computeProjection(tz, now, transactions, startingBalance, config, version))
  /\ transactions' = transactionsAfterCall(transactions)
  /\ UNCHANGED <<simplefin, tz, now, ticks, startingBalance, config, version>>

Next == Project \/ ProjectSimple

Spec == Init /\ [][Next]_vars

(***************************************************************************)
(* The page rendered again: further calls on the inputs it still holds.    *)
(***************************************************************************)
\* The entries that repeat or carry a time of day.
Repeating(t) == t.recurring \/ t.date[4] # 0

InitTwice ==
  /\ tz \in TimeZones
  /\ now = ClockOf(2024)
  /\ transactions \in {l \in TransactionLists(2024) :
                          \A i \in 1..Len(l) : Repeating(l[i])}
  /\ ticks = 0
  /\ startingBalance = 1000
  /\ config = [monthsToProject |-> 1]
  /\ version \in Versions
  /\ calls = <<>>
  /\ simplefin = SimpleFINImport

Rerender ==
  /\ version = "inference"
  /\ calls # <<>>
  /\ Len(calls) < MaxCalls
  /\ calls' = Append(calls,
       [clock |-> now] @@
       computeProjection(tz, now, transactions, startingBalance, config, version))
  /\ transactions' = transactionsAfterCall(transactions)
  /\ UNCHANGED <<simplefin, tz, now, ticks, startingBalance, config, version>>

RerenderSimple ==
  /\ version = "flag"
  /\ calls # <<>>
  /\ Len(calls) < MaxCalls
  /\ calls' = Append(calls,
       [clock |-> now] @@
       computeProjection(tz, now, transactions, startingBalance, config, version))
  /\ transactions' = transactionsAfterCall(transactions)
  /\ UNCHANGED <<simplefin, tz, now, ticks, startingBalance, config, version>>

NextTwice == Tick \/ Project \/ ProjectSimple \/ Rerender \/ RerenderSimple

SpecTwice == InitTwice /\ [][NextTwice]_vars


(***************************************************************************)
(* The recurrence synthesizer alone, over horizons too long to walk day by *)
(* day: the same page, calling only generateRecurringTransactions with the *)
(* endDate computeProjection passes to it.                                 *)
(***************************************************************************)
LongHorizons == {26, 51}

InitGen ==
  /\ tz \in TimeZones
  /\ \E year \in Years :
       /\ now = ClockOf(year)
       /\ transactions \in TransactionLists(year)
  /\ ticks = 0
  /\ startingBalance \in StartingBalances
  /\ config \in [monthsToProject : LongHorizons]
  /\ version \in Versions
  /\ calls = <<>>
  /\ simplefin = SimpleFINImport

Generate ==
  /\ version = "inference"
  /\ calls = <<>>
  /\ calls' = Append(calls,
       [clock |-> now,
        recurringTransactions |->
          generateRecurringTransactions(tz, now, transactions,
            addMonths(tz, startOfDay(tz, now), config.monthsToProject))])
  /\ UNCHANGED <<simplefin, tz, now, ticks, transactions, startingBalance, config, version>>

GenerateSimple ==
  /\ version = "flag"
  /\ calls = <<>>
  /\ calls' = Append(calls,
       [clock |-> now,
        recurringTransactions |->
          generateRecurringTransactionsSimple(tz, now, transactions,
            addMonths(tz, startOfDay(tz, now), config.monthsToProject))])
  /\ UNCHANGED <<simplefin, tz, now, ticks, transactions, startingBalance, config, version>>

NextGen == Tick \/ Generate \/ GenerateSimple

SpecGen == InitGen /\ [][NextGen]_vars

(***************************************************************************)
(* The page with a horizon of no months or of a negative number of months. *)
(***************************************************************************)
NonPositiveMonths == {0 - 4, 0 - 1, 0}

InitEdge ==
  /\ tz \in TimeZones
  /\ \E year \in Years :
       /\ now = ClockOf(year)
       /\ transactions \in TransactionLists(year)
  /\ ticks = 0
  /\ startingBalance \in StartingBalances
  /\ config \in [monthsToProject : NonPositiveMonths]
  /\ version \in Versions
  /\ calls = <<>>
  /\ simplefin = SimpleFINImport

NextEdge == Project \/ ProjectSimple

SpecEdge == InitEdge /\ [][NextEdge]_vars

(***************************************************************************)
(* The call on a list with a defective record.  computeProjection tests no *)
(* input: the one statement that can stop it is toISOString of             *)
(* new Date(transaction.date) while the ledger is indexed, which throws a  *)
(* RangeError on an invalid Date; no statement reads whether an amount is  *)
(* finite, and an arithmetic on a non-finite amount does not throw.        *)
(***************************************************************************)
\* "2024-13-45T00:00:00.000Z": a date string Date cannot parse.
MalformedDate == <<2024, 13, 45, 0>>

\* new Date(s) has a time value.
isValidDateString(s) ==
  /\ s[2] \in 1..12
  /\ s[3] \in 1..31
  /\ s[4] \in 0..(HoursPerDay - 1)

\* parseFloat("Infinity"), which isNaN lets through.
NonFinite == "Infinity"

Defects == {"none", "date", "amount"}

\* The list with the defect put into its i-th record.
withDefect(txs, i, defect) ==
  [txs EXCEPT ![i] =
     IF defect = "date"   THEN [@ EXCEPT !.date = MalformedDate]
     ELSE IF defect = "amount" THEN [@ EXCEPT !.amount = NonFinite]
     ELSE @]

\* Some toISOString of the indexing loop throws.
throwsRangeError(all) ==
  \E i \in 1..Len(all) : ~isValidDateString(all[i].date)

\* The days the loop walks; they follow from the dates alone.
daysWalked(z, clock, txs, scheduleConfig) ==
  LET today == startOfDay(z, clock)
      allTransactions == sortByDate(txs)
      endDate == addMonths(z, today, scheduleConfig.monthsToProject)
      earliestDate == IF Len(allTransactions) > 0
                      THEN parseDate(allTransactions[1].date) ELSE today
      startDate == Min(addMonths(z, today, 0 - HistoryMonths), earliestDate)
  IN  Max(0, (endDate - startDate) \div HoursPerDay + 1)

\* What the caller gets: an exception before the first day, or a result.
callOutcome(z, clock, txs, scheduleConfig) ==
  IF throwsRangeError(txs)
  THEN [returned |-> FALSE, error |-> "RangeError", daysComputed |-> 0]
  ELSE [returned |-> TRUE,  error |-> "none",
        daysComputed |-> daysWalked(z, clock, txs, scheduleConfig)]

InitInvalid ==
  /\ tz \in TimeZones
  /\ \E year \in Years :
       /\ now = ClockOf(year)
       /\ transactions \in TransactionLists(year) \ {<<>>}
  /\ ticks = 0
  /\ startingBalance \in StartingBalances
  /\ config = [monthsToProject |-> 1]
  /\ version \in Versions
  /\ calls = <<>>
  /\ simplefin = SimpleFINImport

\* A call of computeProjection on the held list with one record defective.
ProjectDefective ==
  /\ calls = <<>>
  /\ \E i \in 1..Len(transactions), defect \in Defects :
       calls' = Append(calls,
         [clock |-> now, defect |-> defect, record |-> i] @@
         callOutcome(tz, now, withDefect(transactions, i, defect), config))
  /\ UNCHANGED <<simplefin, tz, now, ticks, transactions, startingBalance, config, version>>

NextInvalid == ProjectDefective

SpecInvalid == InitInvalid /\ [][NextInvalid]_vars

(***************************************************************************)
(* The page with the SimpleFIN import: fetch, select, import.              *)
(***************************************************************************)
InitImport ==
  /\ tz = 0
  /\ now = ClockOf(2024)
  /\ transactions \in {l \in TransactionLists(2024) : Len(l) <= 1}
  /\ ticks = 0
  /\ startingBalance = 1000
  /\ config = [monthsToProject |-> 1]
  /\ version = "inference"
  /\ calls = <<>>
  /\ simplefin = SimpleFINImport

\* fetchDataWithAccessToken, the answer having arrived: the component lists
\* the bank's records dated on or after the latest import date, all selected.
FetchData ==
  /\ simplefin' = [simplefin EXCEPT !.transactions =
       filterFrom(BankFeed(2024), 1, latestImportDate(transactions, now))]
  /\ UNCHANGED <<tz, now, ticks, transactions, startingBalance, config, version, calls>>

\* toggleTransactionSelection
ToggleTransactionSelection ==
  /\ \E i \in 1..Len(simplefin.transactions) :
       simplefin' = [simplefin EXCEPT !.transactions[i].selected = ~@]
  /\ UNCHANGED <<tz, now, ticks, transactions, startingBalance, config, version, calls>>

\* The account select of the component.
SetSelectedAccount ==
  /\ \E a \in Accounts : simplefin' = [simplefin EXCEPT !.selectedAccount = a]
  /\ UNCHANGED <<tz, now, ticks, transactions, startingBalance, config, version, calls>>

\* importSelected, and the page's onTransactionsImported that it calls.
ImportSelected ==
  LET accountFilteredTransactions ==
        accountFiltered(simplefin.transactions, 1, simplefin.selectedAccount)
      allImportedTransactions ==
        [i \in 1..Len(accountFilteredTransactions) |->
           importedTransaction(accountFilteredTransactions[i])]
  IN  /\ accountFilteredTransactions # <<>>
      /\ Len(transactions) + Len(allImportedTransactions) <= MaxHeld
      /\ simplefin' = [simplefin EXCEPT !.importedTransactionIds =
           @ \cup {accountFilteredTransactions[i].id :
                      i \in 1..Len(accountFilteredTransactions)}]
      /\ transactions' = addTransactions(transactions, allImportedTransactions)
      /\ UNCHANGED <<tz, now, ticks, startingBalance, config, version, calls>>

NextImport ==
  FetchData \/ ToggleTransactionSelection \/ SetSelectedAccount \/ ImportSelected

SpecImport == InitImport /\ [][NextImport]_vars

(***************************************************************************)
(* The synthesizer over histories with a cadence: groups of several        *)
(* occurrences, some days, some weeks and some months apart.               *)
(***************************************************************************)
CadencePool(year) ==
  << Transaction(<<"c1">>,  "Stipend", 900, DateStr(year, 0 - 60, 0), "paycheck", FALSE, NoSchedule),
     Transaction(<<"c2">>,  "Stipend", 900, DateStr(year, 0 - 31, 0), "paycheck", TRUE,  MonthlySchedule),
     Transaction(<<"c3">>,  "Lawn",    45,  DateStr(year, 0 - 28, 0), "bill",     FALSE, NoSchedule),
     Transaction(<<"c4">>,  "Lawn",    45,  DateStr(year, 0 - 14, 0), "bill",     TRUE,  BiWeekly),
     Transaction(<<"c5">>,  "Cable",   80,  DateStr(year, 0 - 93, 0), "bill",     FALSE, NoSchedule),
     Transaction(<<"c6">>,  "cable",   80,  DateStr(year, 0 - 65, 0), "bill",     FALSE, NoSchedule),
     Transaction(<<"c7">>,  "Cable",   85,  DateStr(year, 0 - 35, 0), "bill",     TRUE,  MonthlySchedule),
     Transaction(<<"c8">>,  "Dues",    20,  DateStr(year, 0 - 200, 0), "expense", FALSE, NoSchedule),
     Transaction(<<"c9">>,  "Dues",    20,  DateStr(year, 0 - 90, 0), "expense",  FALSE, NoSchedule),
     Transaction(<<"c10">>, "Dues",    20,  DateStr(year, 0 - 90, 6), "expense",  FALSE, NoSchedule),
     Transaction(<<"c11">>, "Dues",    25,  DateStr(year, 0 - 74, 0), "expense",  TRUE,  MonthlySchedule) >>

CadenceLists(year) ==
  {[k \in 1..Len(idx) |-> CadencePool(year)[idx[k]]] :
     idx \in Picks(1, Len(CadencePool(year)), MaxTx + 1)}

CadenceHorizons == {1, 3}

InitCadence ==
  /\ tz \in TimeZones
  /\ \E year \in Years :
       /\ now = ClockOf(year)
       /\ transactions \in CadenceLists(year)
  /\ ticks = 0
  /\ startingBalance = 1000
  /\ config \in [monthsToProject : CadenceHorizons]
  /\ version \in Versions
  /\ calls = <<>>
  /\ simplefin = SimpleFINImport

\* The call of generateRecurringTransactions of finance.ts, with what it
\* logs.
GenerateLogged ==
  /\ version = "inference"
  /\ calls = <<>>
  /\ calls' = Append(calls,
       [clock |-> now,
        patternAnalysis |-> patternAnalysis(transactions),
        recurringTransactions |->
          generateRecurringTransactions(tz, now, transactions,
            addMonths(tz, startOfDay(tz, now), config.monthsToProject))])
  /\ UNCHANGED <<simplefin, tz, now, ticks, transactions, startingBalance, config, version>>

NextCadence == GenerateLogged \/ GenerateSimple

SpecCadence == InitCadence /\ [][NextCadence]_vars

(***************************************************************************)
(* The synthesizer over series out of the common run: two occurrences on   *)
(* one day, held out of order; two entries of one instant; occurrences two *)
(* months apart.                                                           *)
(***************************************************************************)
SeriesPool(year) ==
  << Transaction(<<"s1">>, "Gig",    500, DateStr(year, 0 - 40, 6),  "paycheck", FALSE, NoSchedule),
     Transaction(<<"s2">>, "Gig",    500, DateStr(year, 0 - 40, 0),  "paycheck", FALSE, NoSchedule),
     Transaction(<<"s3">>, "Fee",    12,  DateStr(year, 0 - 20, 0),  "bill",     TRUE,  MonthlySchedule),
     Transaction(<<"s4">>, "Fee",    12,  DateStr(year, 0 - 20, 0),  "bill",     FALSE, NoSchedule),
     Transaction(<<"s5">>, "Permit", 60,  DateStr(year, 0 - 70, 0),  "bill",     FALSE, NoSchedule),
     Transaction(<<"s6">>, "Permit", 60,  DateStr(year, 0 - 130, 0), "bill",     FALSE, NoSchedule) >>

SeriesLists(year) ==
  {[k \in 1..Len(idx) |-> SeriesPool(year)[idx[k]]] :
     idx \in Picks(1, Len(SeriesPool(year)), MaxTx + 1)}

SeriesHorizons == {1, 51}

InitSeries ==
  /\ tz \in TimeZones
  /\ \E year \in Years :
       /\ now = ClockOf(year)
       /\ transactions \in SeriesLists(year)
  /\ ticks = 0
  /\ startingBalance = 1000
  /\ config \in [monthsToProject : SeriesHorizons]
  /\ version \in Versions
  /\ calls = <<>>
  /\ simplefin = SimpleFINImport

NextSeries == GenerateLogged \/ GenerateSimple

SpecSeries == InitSeries /\ [][NextSeries]_vars

(***************************************************************************)
(* The page over transactions of every type and sign: the type other, a    *)
(* transfer of nothing, a bill and a paycheck stored as negative amounts.  *)
(***************************************************************************)
TotalsPool(year) ==
  << Transaction(<<"o1">>, "Refund",    75,      DateStr(year, 2, 0),     "other",    FALSE, NoSchedule),
     Transaction(<<"o2">>, "Hold",      0,       DateStr(year, 2, 0),     "internal_transfer", FALSE, NoSchedule),
     Transaction(<<"o3">>, "Water",     0 - 120, DateStr(year, 5, 0),     "bill",     FALSE, NoSchedule),
     Transaction(<<"o4">>, "Bonus",     0 - 500, DateStr(year, 5, 0),     "paycheck", FALSE, NoSchedule),
     Transaction(<<"o5">>, "Groceries", 60,      DateStr(year, 0, 12),    "expense",  FALSE, NoSchedule),
     Transaction(<<"o6">>, "Gift",      40,      DateStr(year, 0 - 3, 0), "income",   FALSE, NoSchedule),
     Transaction(<<"o7">>, "Move",      0 - 300, DateStr(year, 2, 0),     "internal_transfer", FALSE, NoSchedule),
     Transaction(<<"o8">>, "Move",      300,     DateStr(year, 5, 0),     "internal_transfer", FALSE, NoSchedule) >>

TotalsLists(year) ==
  {[k \in 1..Len(idx) |-> TotalsPool(year)[idx[k]]] :
     idx \in Picks(1, Len(TotalsPool(year)), MaxTx)}

InitTotals ==
  /\ tz \in TimeZones
  /\ now = ClockOf(2024)
  /\ transactions \in TotalsLists(2024)
  /\ ticks = 0
  /\ startingBalance = 1000
  /\ config = [monthsToProject |-> 1]
  /\ version \in Versions
  /\ calls = <<>>
  /\ simplefin = SimpleFINImport

NextTotals == Project \/ ProjectSimple

SpecTotals == InitTotals /\ [][NextTotals]_vars

(***************************************************************************)
(* Vocabulary of the properties.  A period is dated by its date string; a  *)
(* transaction instance is dated by the local calendar day of its instant; *)
(* today is the local calendar day of the clock at the call.               *)
(***************************************************************************)
Projections == {calls[i] : i \in 1..Len(calls)}

DayOf(date) == DaysFromCivil(date[1], date[2], date[3])

PeriodDay(p) == DayOf(p.date)

TodayDay(c) == LocalDay(tz, c.clock)

HorizonEndDay(c) ==
  LocalDay(tz, addMonths(tz, startOfDay(tz, c.clock), config.monthsToProject))

WindowStartDay(c) ==
  LET threeBack == LocalDay(tz, addMonths(tz, startOfDay(tz, c.clock), 0 - HistoryMonths))
      txDays    == {DayOf(slice10(transactions[i].date)) : i \in 1..Len(transactions)}
  IN  IF txDays = {} THEN threeBack
      ELSE Min(threeBack, CHOOSE d \in txDays : \A e \in txDays : d <= e)

InstanceDay(x) == LocalDay(tz, parseDate(x.date))

\* C1: the periods are exactly the calendar days windowStart .. horizonEnd,
\* ascending, each once, whatever the time of day of the input dates.
C1_EveryDayOnce ==
  \A c \in Projections :
    /\ Len(c.periods) = HorizonEndDay(c) - WindowStartDay(c) + 1
    /\ \A i \in 1..Len(c.periods) :
         PeriodDay(c.periods[i]) = WindowStartDay(c) + i - 1

\* C2: balance continuity.  Every period dated after today ends on its
\* starting balance plus its income minus its expenses, and from today on
\* every period starts on the ending balance of the period before it.
C2_BalanceContinuity ==
  \A c \in Projections :
    \A i \in 1..Len(c.periods) :
      LET p == c.periods[i] IN
      /\ PeriodDay(p) > TodayDay(c) =>
           p.endingBalance = p.startingBalance + p.totalIncome - p.totalExpenses
      /\ (PeriodDay(p) >= TodayDay(c) /\ i < Len(c.periods)) =>
           c.periods[i + 1].startingBalance = p.endingBalance

\* C2 witness: a projection whose tomorrow carries income and a later day
\* carries an expense, both moving the balance.
C2_Witness ==
  \E c \in Projections :
    \E i, j \in 1..Len(c.periods) :
      /\ i < j
      /\ PeriodDay(c.periods[i]) = TodayDay(c) + 1
      /\ c.periods[i].totalIncome > 0
      /\ c.periods[i].endingBalance > c.periods[i].startingBalance
      /\ c.periods[j].totalExpenses > 0
      /\ c.periods[j].endingBalance < c.periods[j].startingBalance

\* C3: today invariant.  The period dated today starts and ends on the
\* input starting balance, whatever is dated today.
C3_TodayInvariant ==
  \A c \in Projections :
    \A i \in 1..Len(c.periods) :
      PeriodDay(c.periods[i]) = TodayDay(c) =>
        /\ c.periods[i].startingBalance = startingBalance
        /\ c.periods[i].endingBalance = startingBalance

\* C4: historical invariant.  A period is marked historical exactly when
\* its date is before today's date.
C4_HistoricalIffBeforeToday ==
  \A c \in Projections :
    \A i \in 1..Len(c.periods) :
      c.periods[i].isHistorical <=> PeriodDay(c.periods[i]) < TodayDay(c)

\* C5: non-negativity.  safeToSpend and safeToSave are never negative, and
\* both are 0 in every historical period, one dated before today.
C5_NonNegative ==
  \A c \in Projections :
    \A i \in 1..Len(c.periods) :
      LET p == c.periods[i] IN
      /\ p.safeToSpend >= 0
      /\ p.safeToSave >= 0
      /\ PeriodDay(p) < TodayDay(c) => (p.safeToSpend = 0 /\ p.safeToSave = 0)

\* Synthetic instances of one (lowercased name, type) group in a call.
GroupInstances(c, key) ==
  {i \in 1..Len(c.recurringTransactions) : groupKey(c.recurringTransactions[i]) = key}

\* C6: recurrence cap.  No (lowercased name, type) group generates more
\* than 50 synthetic instances and no instance is dated after horizonEnd.
C6_RecurrenceCap ==
  \A c \in Projections :
    \A i \in 1..Len(c.recurringTransactions) :
      /\ Cardinality(GroupInstances(c, groupKey(c.recurringTransactions[i]))) <= 50
      /\ InstanceDay(c.recurringTransactions[i]) <= HorizonEndDay(c)


\* Number of days of the month with absolute index mi = 12 * year + month0.
MonthDays(mi) ==
  DaysFromCivil((mi + 1) \div 12, ((mi + 1) % 12) + 1, 1)
    - DaysFromCivil(mi \div 12, (mi % 12) + 1, 1)

MonthIndex(date) == 12 * date[1] + date[2] - 1

\* The group of input transaction a is projected month by month.
MonthlyCadence(a) ==
  \/ version = "flag"
  \/ /\ a.type # "paycheck"
     /\ ~isBiWeekly(avgInterval(intervalsOf(
           sortByDate(transactionGroup(transactions, groupKey(a))))))

\* The month the first instance of a's series is for: the month after the
\* anchor's (inference), or the current month unless the anchor's day of
\* the month is already behind today (flag-driven).
FirstTargetMonth(c, a) ==
  IF version = "inference"
  THEN MonthIndex(slice10(a.date)) + 1
  ELSE MonthIndex(CivilFromDays(TodayDay(c)))
         + (IF a.date[3] < CivilFromDays(TodayDay(c))[3] THEN 1 ELSE 0)

InstanceOf(x, a, k) == x.id = a.id \o <<"-future-", ToString(k)>>

\* C7: month-end clamping.  In monthly cadence, the instance for a month
\* with fewer days than the anchor's day of the month is dated on the last
\* day of that month (day 31 into February: the 28th, the 29th in a leap
\* year).
C7_MonthEndClamp ==
  \A c \in Projections :
    \A i \in 1..Len(c.recurringTransactions), j \in 1..Len(transactions) :
      \A k \in 0..(MaxInstances - 1) :
        LET x  == c.recurringTransactions[i]
            a  == transactions[j]
            mi == FirstTargetMonth(c, a) + k
        IN  (InstanceOf(x, a, k) /\ MonthlyCadence(a) /\ a.date[3] > MonthDays(mi))
              => slice10(x.date) = <<mi \div 12, (mi % 12) + 1, MonthDays(mi)>>

\* C8: idempotence.  Any two calls on the same inputs return the same
\* periods and the same finalBalance.
C8_SameInputsSameOutput ==
  \A c, d \in Projections :
    c.periods = d.periods /\ c.finalBalance = d.finalBalance

\* C8, amended: two calls on the same inputs made on the same local
\* calendar day return the same periods and the same finalBalance.
C8_SameDaySameOutput ==
  \A c, d \in Projections :
    TodayDay(c) = TodayDay(d) =>
      (c.periods = d.periods /\ c.finalBalance = d.finalBalance)

\* C8 witness: two calls at different hours of one local day, over a day
\* walk that starts at the time of day of an old transaction.
C8_Witness ==
  /\ Len(calls) = 2
  /\ calls[1].clock # calls[2].clock
  /\ TodayDay(calls[1]) = TodayDay(calls[2])
  /\ calls[1].periods # <<>>
  /\ calls[1].periods = calls[2].periods
  /\ \E i \in 1..Len(transactions) :
       parseDate(transactions[i].date)
         < addMonths(tz, startOfDay(tz, calls[1].clock), 0 - HistoryMonths)

\* What a transaction does to the running balance of a future day: income
\* types add its magnitude, expense types subtract it, a transfer adds its
\* signed amount.
Effect(t) ==
  CASE t.type \in {"paycheck", "income"}  -> Abs(t.amount)
    [] t.type \in {"bill", "expense"}     -> 0 - Abs(t.amount)
    [] t.type = "internal_transfer"       -> t.amount
    [] OTHER                              -> 0

RECURSIVE SumEffects(_, _)
SumEffects(txs, i) ==
  IF i > Len(txs) THEN 0 ELSE Effect(txs[i]) + SumEffects(txs, i + 1)

\* C9: on every day after today the balance moves by the sum of the
\* effects of the day's transactions, an internal_transfer counting with
\* the sign of its amount.
C9_TransferBySign ==
  \A c \in Projections :
    \A i \in 1..Len(c.periods) :
      PeriodDay(c.periods[i]) > TodayDay(c) =>
        c.periods[i].endingBalance
          = c.periods[i].startingBalance + SumEffects(c.periods[i].transactions, 1)

\* C9 witness: a future day with a negative transfer that lowered the
\* balance by its magnitude and one with a positive transfer that raised it.
C9_Witness ==
  \E c \in Projections :
    \E i, j \in 1..Len(c.periods) :
      LET p == c.periods[i]
          q == c.periods[j]
      IN  /\ PeriodDay(p) > TodayDay(c) /\ PeriodDay(q) > TodayDay(c)
          /\ Len(p.transactions) = 1 /\ Len(q.transactions) = 1
          /\ p.transactions[1].type = "internal_transfer"
          /\ p.transactions[1].amount < 0
          /\ p.endingBalance = p.startingBalance - Abs(p.transactions[1].amount)
          /\ q.transactions[1].type = "internal_transfer"
          /\ q.transactions[1].amount > 0
          /\ q.endingBalance = q.startingBalance + Abs(q.transactions[1].amount)

\* The scenario: Rent 1500 on the 1st, Salary 2100 tomorrow, balance 1000,
\* one month projected.
Scenario ==
  /\ Len(transactions) = 2
  /\ {transactions[i].id : i \in 1..2} = {<<"t1">>, <<"t2">>}
  /\ startingBalance = 1000
  /\ config.monthsToProject = 1

\* Occurrences of a display name on the days after today.
Occurrences(c, name) ==
  Cardinality({ij \in (1..Len(c.periods)) \X (1..(Len(transactions) + Len(c.recurringTransactions))) :
                 /\ PeriodDay(c.periods[ij[1]]) > TodayDay(c)
                 /\ ij[2] <= Len(c.periods[ij[1]].transactions)
                 /\ c.periods[ij[1]].transactions[ij[2]].name = name})

\* C10: in the scenario the days after today hold one Rent and two or
\* three Salary occurrences, finalBalance is 1000 - 1500 per Rent + 2100 per
\* Salary, and the days after today are consecutive with a running balance.
C10_Scenario ==
  \A c \in Projections :
    Scenario =>
      /\ Occurrences(c, "Rent") = 1
      /\ Occurrences(c, "Salary") \in {2, 3}
      /\ c.finalBalance = 1000 - 1500 * Occurrences(c, "Rent")
                               + 2100 * Occurrences(c, "Salary")
      /\ \A i \in 1..(Len(c.periods) - 1) :
           PeriodDay(c.periods[i]) >= TodayDay(c) =>
             /\ PeriodDay(c.periods[i + 1]) = PeriodDay(c.periods[i]) + 1
             /\ c.periods[i + 1].endingBalance
                  = c.periods[i].endingBalance + c.periods[i + 1].totalIncome
                      - c.periods[i + 1].totalExpenses

(***************************************************************************)
(* C11 .. C20                                                              *)
(***************************************************************************)
\* The list is held in an order other than the order of its dates.
HeldUnsorted == transactions # sortByDate(transactions)

C12_NoDayAfterToday ==
  \A c \in Projections :
    config.monthsToProject <= 0 =>
      \A i \in 1..Len(c.periods) : PeriodDay(c.periods[i]) <= TodayDay(c)

\* A call with a negative horizon has returned periods, all of them past.
C12_Witness ==
  /\ config.monthsToProject < 0
  /\ \E c \in Projections :
       /\ c.periods # <<>>
       /\ PeriodDay(c.periods[Len(c.periods)]) < TodayDay(c)

\* A call with a negative horizon has returned a result with no periods.
C12_EmptyResult ==
  /\ config.monthsToProject < 0
  /\ \E c \in Projections : c.periods = <<>> /\ c.finalBalance = startingBalance

\* C13: when an input transaction has a malformed date or a non-finite
\* amount, the call stops with an error before any day is computed, and
\* returns no result.
C13_InvalidInputStops ==
  \A c \in Projections :
    c.defect # "none" => ~c.returned /\ c.daysComputed = 0

\* The malformed date alone: the call stops before the first day.
C13_MalformedDateStops ==
  \A c \in Projections :
    c.defect = "date" => ~c.returned /\ c.daysComputed = 0

\* C14: whatever sequence of fetches and imports of selected records is run,
\* including a fetch after an import and an import run twice, the
\* transaction list never holds the same id twice.
C14_NoDuplicateImports ==
  \A i, j \in 1..Len(transactions) :
    i # j => transactions[i].id # transactions[j].id

\* Day of the week of a local calendar day, 0 for Sunday to 6 for Saturday.
Weekday(day) == (day + 4) % 7

IsWeekend(day) == Weekday(day) \in {0, 6}

\* Instance x belongs to the series of input transaction a.
InSeriesOf(x, a) == \E k \in 0..(MaxInstances - 1) : InstanceOf(x, a, k)

\* C15: weekend shift.  No synthetic instance of the monthly cadence is
\* dated on a Saturday or a Sunday: a date that falls on one is replaced by
\* the following Monday.
C15_WeekendShift ==
  \A c \in Projections :
    \A i \in 1..Len(c.recurringTransactions), j \in 1..Len(transactions) :
      (/\ InSeriesOf(c.recurringTransactions[i], transactions[j])
       /\ MonthlyCadence(transactions[j]))
      => ~IsWeekend(InstanceDay(c.recurringTransactions[i]))

\* The same of the flag-driven synthesizer alone, which calls
\* adjustForWeekend on every date it computes.
C15_FlagWeekendShift ==
  version = "flag" => C15_WeekendShift

\* The instances call c synthesized for input transaction a.
SeriesOf(c, a) ==
  {i \in 1..Len(c.recurringTransactions) : InSeriesOf(c.recurringTransactions[i], a)}

\* a is the only transaction of its (lowercased name, type) group.
AloneInGroup(a) == Len(transactionGroup(transactions, groupKey(a))) = 1

\* C16: minimum history.  In inference mode a group with a single
\* transaction generates nothing; a lone transaction generates instances
\* only in flag-driven mode, and only when its recurring flag is true.
C16_MinimumHistory ==
  \A c \in Projections :
    \A j \in 1..Len(transactions) :
      (/\ AloneInGroup(transactions[j])
       /\ version = "inference" \/ ~transactions[j].recurring)
      => SeriesOf(c, transactions[j]) = {}

\* The flag-driven half: a transaction whose recurring flag is false
\* generates nothing.
C16_FlagOnlyRecurring ==
  \A c \in Projections :
    \A j \in 1..Len(transactions) :
      (version = "flag" /\ ~transactions[j].recurring)
      => SeriesOf(c, transactions[j]) = {}

\* The occurrences of the group of input transaction a, in date order.
SortedGroupOf(a) == sortByDate(transactionGroup(transactions, groupKey(a)))

\* The estimated period of the group of a, as the fraction num / den.
EstimateOf(a) == avgInterval(intervalsOf(SortedGroupOf(a)))

\* The group of a has a period to estimate: two occurrences a valid
\* number of days apart.
HasEstimate(a) == intervalsOf(SortedGroupOf(a)) # <<>>

\* The local calendar day of the k-th (from 0) monthly date after a: the
\* day of the month of a in the k+1-th month after a's, or the last day of
\* that month when it is shorter.
MonthlyDayAfter(a, k) ==
  LET civil == CivilFromDays(InstanceDay(a))
      mi    == MonthIndex(civil) + 1 + k
  IN  DaysFromCivil(mi \div 12, (mi % 12) + 1, Min(civil[3], MonthDays(mi)))

\* C17: cadence classification.  A group whose estimated period is 10 to 18
\* days is projected by adding the estimated interval again and again to
\* its last occurrence; a group whose estimated period is 25 to 35 days is
\* projected monthly on the day of the month of its last occurrence,
\* whatever the type of its transactions.
C17_CadenceByPeriod ==
  \A c \in Projections :
    version = "inference" =>
      \A i \in 1..Len(c.recurringTransactions), j \in 1..Len(transactions) :
        \A k \in 0..(MaxInstances - 1) :
          LET x == c.recurringTransactions[i]
              a == transactions[j]
          IN  (InstanceOf(x, a, k) /\ HasEstimate(a)) =>
                /\ isBiWeekly(EstimateOf(a)) =>
                     parseDate(x.date) =
                       parseDate(a.date) + (k + 1) * roundAvg(EstimateOf(a)) * HoursPerDay
                /\ isMonthly(EstimateOf(a)) =>
                     InstanceDay(x) = MonthlyDayAfter(a, k)

\* The same of the groups that are not paychecks.
C17_CadenceByPeriodButPaychecks ==
  \A c \in Projections :
    version = "inference" =>
      \A i \in 1..Len(c.recurringTransactions), j \in 1..Len(transactions) :
        \A k \in 0..(MaxInstances - 1) :
          LET x == c.recurringTransactions[i]
              a == transactions[j]
          IN  (InstanceOf(x, a, k) /\ HasEstimate(a) /\ a.type # "paycheck") =>
                /\ isBiWeekly(EstimateOf(a)) =>
                     parseDate(x.date) =
                       parseDate(a.date) + (k + 1) * roundAvg(EstimateOf(a)) * HoursPerDay
                /\ isMonthly(EstimateOf(a)) =>
                     InstanceDay(x) = MonthlyDayAfter(a, k)

\* The day-delta between the i-th occurrence of a sorted group and the
\* next: the time between them in days, to the nearest whole day.
DeltaAt(sorted, i) ==
  daysDiff(parseDate(sorted[i + 1].date), parseDate(sorted[i].date))

\* The places of the deltas d with 0 < d <= 90.
ValidDeltas(sorted) ==
  {i \in 1..(Len(sorted) - 1) : DeltaAt(sorted, i) > 0 /\ DeltaAt(sorted, i) <= 90}

RECURSIVE SumDeltas(_, _)
SumDeltas(sorted, places) ==
  IF places = {} THEN 0
  ELSE LET i == CHOOSE i \in places : TRUE
       IN  DeltaAt(sorted, i) + SumDeltas(sorted, places \ {i})

\* The occurrences of the g-th group of the held list, in date order.
SortedGroup(g) ==
  sortByDate(transactionGroup(transactions, transactionGroupKeys(transactions)[g]))

C18_SameDayDuplicate ==
  /\ version = "inference"
  /\ \E c \in Projections : \E g \in 1..Len(c.patternAnalysis) :
       /\ ValidDeltas(SortedGroup(g)) # {}
       /\ \E i \in 1..(Len(SortedGroup(g)) - 1) : DeltaAt(SortedGroup(g), i) = 0

\* a is the anchor of a series: the latest-dated transaction of its group
\* (inference), a transaction flagged recurring (flag-driven).
IsAnchor(a) ==
  IF version = "inference"
  THEN a = SortedGroupOf(a)[Len(SortedGroupOf(a))]
  ELSE a.recurring

\* The number of instances of a's series that call c generated before its
\* i-th instance.
OrdinalIn(c, a, i) == Cardinality({h \in SeriesOf(c, a) : h < i})

\* C19: every synthetic instance has the name, the amount and the type of
\* its anchor and recurring = true, and its id is the id of the anchor,
\* "-future-", and its ordinal, counted from 0, in the series of the anchor.
C19_InstanceCopiesAnchor ==
  \A c \in Projections :
    \A i \in 1..Len(c.recurringTransactions) :
      \E j \in 1..Len(transactions) :
        LET x == c.recurringTransactions[i]
            a == transactions[j]
        IN  /\ IsAnchor(a)
            /\ InstanceOf(x, a, OrdinalIn(c, a, i))
            /\ x.name = a.name
            /\ x.amount = a.amount
            /\ x.type = a.type
            /\ x.recurring = TRUE

\* A series of two instances or more has been generated from an anchor
\* whose group holds another transaction of another amount.
C19_Witness ==
  \E c \in Projections :
    \E i \in 1..Len(c.recurringTransactions), j, h \in 1..Len(transactions) :
      /\ InstanceOf(c.recurringTransactions[i], transactions[j], 1)
      /\ groupKey(transactions[h]) = groupKey(transactions[j])
      /\ transactions[h].amount # transactions[j].amount

\* An income-type transaction: a paycheck, an income, or an internal
\* transfer of a positive amount.
IncomeType(t) ==
  \/ t.type \in {"paycheck", "income"}
  \/ t.type = "internal_transfer" /\ t.amount > 0

\* The days that hold an income-type transaction, entered or synthesized
\* by call c, each under the date of its date string.
IncomeDays(c) ==
  {DayOf(transactions[i].date) :
     i \in {h \in 1..Len(transactions) : IncomeType(transactions[h])}}
  \cup
  {DayOf(c.recurringTransactions[i].date) :
     i \in {h \in 1..Len(c.recurringTransactions) : IncomeType(c.recurringTransactions[h])}}

\* The offsets, within 30 days, from the k-th period of call c to the
\* later days that hold income.
IncomeOffsets(c, k) ==
  {n \in 1..30 : PeriodDay(c.periods[k]) + n \in IncomeDays(c)}

\* The first offset to a day that holds income.
FirstIncomeOffset(c, k) ==
  CHOOSE n \in IncomeOffsets(c, k) : \A m \in IncomeOffsets(c, k) : n <= m

\* The k-th period of call c is not historical, by its date and by its flag.
NonHistorical(c, k) ==
  /\ PeriodDay(c.periods[k]) >= TodayDay(c)
  /\ ~c.periods[k].isHistorical

\* C20: for every period that is not historical, daysUntilNextIncome is the
\* offset in days to the first later day that holds an income-type
\* transaction, and 30 when there is none within 30 days; it never exceeds
\* 30, the days close to horizonEnd included.
C20_DaysUntilNextIncome ==
  \A c \in Projections :
    \A k \in 1..Len(c.periods) :
      NonHistorical(c, k) =>
        /\ c.periods[k].daysUntilNextIncome <= 30
        /\ c.periods[k].daysUntilNextIncome =
             (IF IncomeOffsets(c, k) = {} THEN 30
              ELSE FirstIncomeOffset(c, k))

\* The half of it that holds: when the first later day that holds income
\* lies within 30 days and no further than the day after horizonEnd,
\* daysUntilNextIncome is the offset to it.
C20_OffsetWhenFound ==
  \A c \in Projections :
    \A k \in 1..Len(c.periods) :
      (/\ NonHistorical(c, k)
       /\ IncomeOffsets(c, k) # {}
       /\ k + FirstIncomeOffset(c, k) <= Len(c.periods) + 1)
      => c.periods[k].daysUntilNextIncome = FirstIncomeOffset(c, k)

(***************************************************************************)
(* C21 .. C30                                                              *)
(***************************************************************************)
\* An expense-type transaction: a bill, an expense, or an internal transfer
\* of a negative amount.
ExpenseType(t) ==
  \/ t.type \in {"bill", "expense"}
  \/ t.type = "internal_transfer" /\ t.amount < 0

\* The transactions call c put into its ledger: the entered ones and the
\* synthesized ones.
Ledger(c) == transactions \o c.recurringTransactions

\* The sum of |amount| of the expense-type transactions of a list, from
\* its i-th on, dated on the days lo to hi.
RECURSIVE ExpensesWithin(_, _, _, _)
ExpensesWithin(list, i, lo, hi) ==
  IF i > Len(list) THEN 0
  ELSE (IF ExpenseType(list[i]) /\ DayOf(list[i].date) \in lo..hi
        THEN Abs(list[i].amount) ELSE 0)
       + ExpensesWithin(list, i + 1, lo, hi)

\* The length in days of the lookahead window of the k-th period: to the
\* next income day, 30 days at most.
LookaheadDays(c, k) ==
  IF IncomeOffsets(c, k) = {} THEN 30 ELSE FirstIncomeOffset(c, k)

\* safeBalance of the k-th period over a window of w days.
SafeBalanceOver(c, k, w) ==
  c.periods[k].endingBalance
    - ExpensesWithin(Ledger(c), 1, PeriodDay(c.periods[k]) + 1, PeriodDay(c.periods[k]) + w)

\* C21: for every period that is not historical, safeToSpend is
\* max(0, 0.8 * safeBalance) and safeToSave is max(0, 0.2 * safeBalance),
\* safeBalance being the endingBalance of the period less the expense-type
\* amounts of the days after it up to and including the next income day,
\* 30 days at most.  The two amounts are held in tenths.
C21_SafeSplit ==
  \A c \in Projections :
    \A k \in 1..Len(c.periods) :
      NonHistorical(c, k) =>
        LET safeBalance == SafeBalanceOver(c, k, LookaheadDays(c, k))
        IN  /\ c.periods[k].safeToSpend = Max(0, 8 * safeBalance)
            /\ c.periods[k].safeToSave  = Max(0, 2 * safeBalance)
            /\ c.periods[k].safeToSpend + c.periods[k].safeToSave
                 = Max(0, 10 * safeBalance)

\* The same over the window the period itself reports: the days after it up
\* to daysUntilNextIncome, 30 at most.
C21_SafeSplitOverReportedWindow ==
  \A c \in Projections :
    \A k \in 1..Len(c.periods) :
      NonHistorical(c, k) =>
        LET safeBalance ==
              SafeBalanceOver(c, k, Min(c.periods[k].daysUntilNextIncome, 30))
        IN  /\ c.periods[k].safeToSpend = Max(0, 8 * safeBalance)
            /\ c.periods[k].safeToSave  = Max(0, 2 * safeBalance)

\* The sum of |amount| of the income-type transactions of a list, from its
\* i-th on.
RECURSIVE IncomeOf(_, _)
IncomeOf(list, i) ==
  IF i > Len(list) THEN 0
  ELSE (IF IncomeType(list[i]) THEN Abs(list[i].amount) ELSE 0) + IncomeOf(list, i + 1)

\* The sum of |amount| of the expense-type transactions of a list.
RECURSIVE ExpensesOf(_, _)
ExpensesOf(list, i) ==
  IF i > Len(list) THEN 0
  ELSE (IF ExpenseType(list[i]) THEN Abs(list[i].amount) ELSE 0) + ExpensesOf(list, i + 1)

\* C22: for every period, historical, today or future, totalIncome is the
\* sum of |amount| over the day's paychecks, incomes and internal transfers
\* of a positive amount, and totalExpenses the sum of |amount| over its
\* bills, expenses and internal transfers of a negative amount.  The type
\* other and a transfer of 0 count in neither and never move the balance;
\* a bill or paycheck stored as a negative amount counts by its magnitude.
C22_DayTotals ==
  \A c \in Projections :
    \A k \in 1..Len(c.periods) :
      LET p == c.periods[k]
      IN  /\ p.totalIncome   = IncomeOf(p.transactions, 1)
          /\ p.totalExpenses = ExpensesOf(p.transactions, 1)
          /\ p.endingBalance - p.startingBalance
               \in {0, IncomeOf(p.transactions, 1) - ExpensesOf(p.transactions, 1)}

\* A future day holding a transaction of type other or a transfer of 0,
\* and a day holding a bill stored as a negative amount, have been totalled.
C22_Witness ==
  \E c \in Projections :
    /\ \E k \in 1..Len(c.periods) :
         /\ ~c.periods[k].isHistorical
         /\ \E i \in 1..Len(c.periods[k].transactions) :
              \/ c.periods[k].transactions[i].type = "other"
              \/ c.periods[k].transactions[i].amount = 0
    /\ \E k \in 1..Len(c.periods) :
         /\ c.periods[k].totalExpenses > 0
         /\ \E i \in 1..Len(c.periods[k].transactions) :
              /\ c.periods[k].transactions[i].type = "bill"
              /\ c.periods[k].transactions[i].amount < 0

\* Input transaction a is the anchor of a group the inference synthesizer
\* projects in call c: the latest of its group, and before today.
Projected(c, a) ==
  /\ a = SortedGroupOf(a)[Len(SortedGroupOf(a))]
  /\ InstanceDay(a) < TodayDay(c)

\* The group of a takes the interval cadence (the monthly one otherwise).
IntervalCadence(a) == a.type = "paycheck" \/ isBiWeekly(EstimateOf(a))

\* The whole days of the interval the group of a is stepped by.
StepDays(a) == roundAvg(EstimateOf(a))

\* The number of dates of the interval cadence of a up to horizonEnd, and
\* of those of its monthly cadence, the cap of 50 applied.
IntervalDatesToHorizon(c, a) ==
  Min(MaxInstances, Max(0, (HorizonEndDay(c) - InstanceDay(a)) \div StepDays(a)))

MonthlyDatesToHorizon(c, a) ==
  Min(MaxInstances,
      Cardinality({k \in 0..MaxInstances : MonthlyDayAfter(a, k) <= HorizonEndDay(c)}))

\* The instance of ordinal k of the series of a in call c is on day d.
InstanceOnDay(c, a, k, d) ==
  \E i \in 1..Len(c.recurringTransactions) :
    /\ InstanceOf(c.recurringTransactions[i], a, k)
    /\ InstanceDay(c.recurringTransactions[i]) = d

\* C23: generation runs to the horizon.  In the interval cadence the k-th
\* instance (k = 1, 2, ...) is dated k times the rounded estimated period
\* after the last occurrence, and the series stops only where the next
\* date would exceed horizonEnd or at 50 instances; in the monthly cadence
\* there is exactly one instance in each calendar month from the month
\* after the last occurrence up to the horizon or the cap.
C23_RunsToHorizon ==
  \A c \in Projections :
    version = "inference" =>
      \A j \in 1..Len(transactions) :
        LET a == transactions[j]
        IN  Projected(c, a) =>
              IF IntervalCadence(a)
              THEN StepDays(a) >= 1 =>
                     /\ Cardinality(SeriesOf(c, a)) = IntervalDatesToHorizon(c, a)
                     /\ \A k \in 1..IntervalDatesToHorizon(c, a) :
                          InstanceOnDay(c, a, k - 1, InstanceDay(a) + k * StepDays(a))
              ELSE /\ Cardinality(SeriesOf(c, a)) = MonthlyDatesToHorizon(c, a)
                   /\ \A k \in 1..MonthlyDatesToHorizon(c, a) :
                        InstanceOnDay(c, a, k - 1, MonthlyDayAfter(a, k - 1))

\* x is a synthetic transaction: its id is an input id followed by
\* "-future-" and an ordinal.
IsSynthetic(x) == Len(x.id) > 1

\* C24: synthetic instances are future occurrences.  No synthetic instance
\* is dated before today, and no synthetic transaction is listed in a
\* historical period, however far in the past the last real occurrence
\* of its group lies.
C24_InstancesNotBeforeToday ==
  \A c \in Projections :
    /\ \A i \in 1..Len(c.recurringTransactions) :
         InstanceDay(c.recurringTransactions[i]) >= TodayDay(c)
    /\ \A i \in 1..Len(c.periods) :
         (c.periods[i].isHistorical \/ PeriodDay(c.periods[i]) < TodayDay(c)) =>
           \A h \in 1..Len(c.periods[i].transactions) :
             ~IsSynthetic(c.periods[i].transactions[h])

\* What holds in the flag version: a synthetic instance is never dated
\* before today.
C24_FlagNotBeforeToday ==
  \A c \in Projections :
    version = "flag" =>
      \A i \in 1..Len(c.recurringTransactions) :
        InstanceDay(c.recurringTransactions[i]) >= TodayDay(c)

\* Two entries of the group of a are dated on one calendar day.
SameDayInGroup(a) ==
  \E i, j \in 1..Len(transactions) :
    /\ i # j
    /\ groupKey(transactions[i]) = groupKey(a)
    /\ groupKey(transactions[j]) = groupKey(a)
    /\ DayOf(transactions[i].date) = DayOf(transactions[j].date)

C26_HistoryLeavesBalance ==
  \A c \in Projections :
    \A i \in 1..Len(c.periods) :
      (c.periods[i].isHistorical \/ PeriodDay(c.periods[i]) < TodayDay(c)) =>
        /\ c.periods[i].startingBalance = startingBalance
        /\ c.periods[i].endingBalance = startingBalance

\* A historical period lists an expense and an earlier one lists income.
C26_Witness ==
  \E c \in Projections :
    \E i, j \in 1..Len(c.periods) :
      /\ i < j
      /\ c.periods[j].isHistorical
      /\ PeriodDay(c.periods[j]) < TodayDay(c)
      /\ c.periods[i].totalIncome > 0
      /\ c.periods[j].totalExpenses > 0

\* C27: no double counting of a recurring item.  Of one (lowercased name,
\* type) group no calendar day holds two synthetic instances, and no
\* synthetic instance is dated on the calendar day of a real input
\* transaction of the group.
C27_NoDoubleCounting ==
  \A c \in Projections :
    \A i \in 1..Len(c.recurringTransactions) :
      LET x == c.recurringTransactions[i]
      IN  /\ \A h \in 1..Len(c.recurringTransactions) :
               (h # i /\ groupKey(c.recurringTransactions[h]) = groupKey(x)) =>
                 InstanceDay(c.recurringTransactions[h]) # InstanceDay(x)
          /\ \A j \in 1..Len(transactions) :
               groupKey(transactions[j]) = groupKey(x) =>
                 InstanceDay(transactions[j]) # InstanceDay(x)

\* What holds in the inference version: no calendar day holds two
\* synthetic instances of one group.
C27_InferenceOnePerDay ==
  \A c \in Projections :
    version = "inference" =>
      \A i, h \in 1..Len(c.recurringTransactions) :
        (h # i /\ groupKey(c.recurringTransactions[h]) = groupKey(c.recurringTransactions[i])) =>
          InstanceDay(c.recurringTransactions[h]) # InstanceDay(c.recurringTransactions[i])

\* x is an instance of the monthly cadence: of the flag version, or of a
\* group of the inference version that does not take the interval cadence.
MonthlyInstance(x) ==
  /\ IsSynthetic(x)
  /\ \/ version = "flag"
     \/ \E j \in 1..Len(transactions) :
          InSeriesOf(x, transactions[j]) /\ ~IntervalCadence(transactions[j])

\* The calendar date a transaction was entered or generated for: the date
\* of its date string, and for an instance of the monthly cadence the local
\* day it was computed for.
EnteredDay(x) == IF MonthlyInstance(x) THEN InstanceDay(x) ELSE DayOf(x.date)

\* The periods of call c that list the transaction of id.
PeriodsListing(c, id) ==
  {i \in 1..Len(c.periods) :
     \E h \in 1..Len(c.periods[i].transactions) : c.periods[i].transactions[h].id = id}

\* C28: day bucketing is a partition.  Every input or synthetic
\* transaction whose calendar date lies in [windowStart, horizonEnd] is
\* listed in exactly one period, the one dated on the calendar date the
\* transaction was entered or generated for, and every transaction a
\* period lists has the period's date.
C28_BucketsPartition ==
  \A c \in Projections :
    /\ \A n \in 1..Len(Ledger(c)) :
         LET x == Ledger(c)[n]
         IN  (WindowStartDay(c) <= EnteredDay(x) /\ EnteredDay(x) <= HorizonEndDay(c)) =>
               /\ Cardinality(PeriodsListing(c, x.id)) = 1
               /\ \A i \in PeriodsListing(c, x.id) : PeriodDay(c.periods[i]) = EnteredDay(x)
    /\ \A i \in 1..Len(c.periods) :
         \A h \in 1..Len(c.periods[i].transactions) :
           EnteredDay(c.periods[i].transactions[h]) = PeriodDay(c.periods[i])

\* What holds: a transaction is listed in at most one period, and the
\* date string of a listed transaction has the date of its period.
C28_ListedUnderDateString ==
  \A c \in Projections :
    /\ \A n \in 1..Len(Ledger(c)) :
         Cardinality(PeriodsListing(c, Ledger(c)[n].id)) <= 1
    /\ \A i \in 1..Len(c.periods) :
         \A h \in 1..Len(c.periods[i].transactions) :
           DayOf(c.periods[i].transactions[h].date) = PeriodDay(c.periods[i])

\* C29: only recognizable repetitions are projected.  In the inference
\* version a group whose estimated period lies neither within 10 to 18
\* days nor within 25 to 35 days yields no synthetic instance.
C29_IrregularNotProjected ==
  \A c \in Projections :
    version = "inference" =>
      \A j \in 1..Len(transactions) :
        (~isBiWeekly(EstimateOf(transactions[j])) /\ ~isMonthly(EstimateOf(transactions[j]))) =>
          SeriesOf(c, transactions[j]) = {}

\* The local days instance x may have been computed for: its own day, and
\* in the flag version the Sunday or the Saturday before it when it is the
\* Monday the weekend was moved to.
ComputedFor(x) ==
  {InstanceDay(x)} \cup
  (IF version = "flag"
   THEN {d \in {InstanceDay(x) - 1, InstanceDay(x) - 2} :
           \/ (d = InstanceDay(x) - 1 /\ Weekday(d) = 0)
           \/ (d = InstanceDay(x) - 2 /\ Weekday(d) = 6)}
   ELSE {})

\* Instance x is on day-of-month dom of its month, where the month has
\* that day.
OnDayOfMonth(x, dom) ==
  \E d \in ComputedFor(x) :
    MonthDays(MonthIndex(CivilFromDays(d))) >= dom => CivilFromDays(d)[3] = dom

\* C30: the monthly anchor does not drift.  In the monthly cadence the
\* instance for a month with at least as many days as the anchor's day of
\* the month, the day of the date it was entered for, is computed for
\* exactly that day of the month, also after a month that was clamped.
C30_AnchorDayKept ==
  \A c \in Projections :
    \A i \in 1..Len(c.recurringTransactions), j \in 1..Len(transactions) :
      (/\ InSeriesOf(c.recurringTransactions[i], transactions[j])
       /\ MonthlyCadence(transactions[j]))
        => OnDayOfMonth(c.recurringTransactions[i], transactions[j].date[3])

\* What holds: the day of the month kept is the local one of the anchor's
\* instant, which west of UTC is the day before the date entered.
C30_LocalAnchorDayKept ==
  \A c \in Projections :
    \A i \in 1..Len(c.recurringTransactions), j \in 1..Len(transactions) :
      (/\ InSeriesOf(c.recurringTransactions[i], transactions[j])
       /\ MonthlyCadence(transactions[j]))
        => OnDayOfMonth(c.recurringTransactions[i],
                        CivilFromDays(InstanceDay(transactions[j]))[3])

====
